---- MODULE Spec2Model ----
(***************************************************************************)
(* Slack command relay of Claude-Code-Remote: the /claude slash-command    *)
(* handler and the SlackChannel notification channel of                     *)
(* start-slack-webhook.js, with the session store (one JSON file per        *)
(* session), the terminal-multiplexer locator and the CommandRelay the      *)
(* channel delegates to.                                                    *)
(*                                                                         *)
(* Strings the program inspects character by character (tokens, command    *)
(* texts, the raw text of a slash command) are sequences of one-character   *)
(* strings; names and messages that are only compared are TLA+ strings.     *)
(* A JavaScript value that may be undefined/null is the string Undefined.   *)
(***************************************************************************)
EXTENDS Integers, Sequences, FiniteSets, TLC

VARIABLES
    config,     \* this.config of the SlackChannel: which settings are present
    store,      \* data/sessions: session id -> persisted session record
    nextId,     \* state of the uuidv4 generator: the next fresh identifier
    everIds,    \* history: identifiers under which a record was ever written
    now,        \* Date.now(), in milliseconds
    tmuxLive,   \* names of the tmux sessions that currently exist
    disp,       \* the _sendImpl invocations: their locals, and how each ended
    cmd,        \* the /claude handler invocation: its position and locals
    relay       \* the handleCommand call whose result its caller still holds

vars == <<config, store, nextId, everIds, now, tmuxLive, disp, cmd, relay>>

----------------------------------------------------------------------------
(* Bounds of the model *)

\* number of _sendImpl invocations (each may run concurrently with the others)
MaxDispatch == 2
\* number of clock advances
MaxTicks == 2

----------------------------------------------------------------------------
(* Program constants and values *)

Undefined == "undefined"

\* 24 * 60 * 60 * 1000 ms, the lifetime added to Date.now() in _createSession
TTL_MS == 24 * 60 * 60 * 1000

\* length of a generated token (the loop bound in _generateToken and the
\* {8} of the handler's pattern)
TOKEN_LEN == 8

\* the alphabet of _generateToken
chars == << "A", "B", "C", "D", "E", "F", "G", "H", "I", "J", "K", "L", "M",
            "N", "O", "P", "Q", "R", "S", "T", "U", "V", "W", "X", "Y", "Z",
            "0", "1", "2", "3", "4", "5", "6", "7", "8", "9" >>

\* the value the record's tmuxSession takes when none was resolved
Sentinel == "default"

\* characters matched by \s and stripped by String.prototype.trim
Whitespace == { " ", "\t" }

\* JavaScript truthiness of a string-or-undefined value
Truthy(x) == x # Undefined /\ x # ""

\* a || b
OrElse(a, b) == IF Truthy(a) THEN a ELSE b

----------------------------------------------------------------------------
(* Inputs the environment supplies *)

\* results of the eight Math.floor(Math.random() * chars.length) draws of one
\* _generateToken call: indices into chars ("AAAAAAAA" and "AB12CD34")
RandomDraws == { <<0, 0, 0, 0, 0, 0, 0, 0>>, <<0, 1, 27, 28, 2, 3, 29, 30>> }

\* milliseconds by which the clock advances between the new Date() and the
\* Date.now() of one _createSession call
Elapsed == { 0, 1 }

\* names a tmux session can have
TmuxNames == { "work" }

NoMetadata ==
    [present |-> FALSE, userQuestion |-> Undefined,
     claudeResponse |-> Undefined, tmuxSession |-> Undefined]

\* notification objects {type, project, message, metadata?} handed to
\* _sendImpl: one without metadata, one whose metadata names no tmux session
Notifications ==
    { [type |-> "completed", project |-> "proj", message |-> "done",
       metadata |-> m] :
      m \in { NoMetadata,
              [present |-> TRUE, userQuestion |-> "q", claudeResponse |-> "r",
               tmuxSession |-> Undefined] } }

\* what TmuxMonitor.getRecentConversation returns: a question was found, a
\* response was not
Conversations ==
    { [userQuestion |-> "q", claudeResponse |-> Undefined] }

\* outcomes of execSync('tmux display-message -p "#S"'): the command fails
\* (no tmux, not inside a session) or prints the name of the session the
\* process is attached to; the text is the output after trim()
TmuxOutputs ==
    { [failed |-> TRUE, text |-> ""] } \cup
    { [failed |-> FALSE, text |-> n] : n \in tmuxLive \cup { "" } }

----------------------------------------------------------------------------
(* SlackChannel: configuration, token, session files *)

\* _validateConfig / validateConfig
validateConfig == config.botToken /\ config.channelId

\* _generateToken: eight characters, each chars.charAt of one random index
_generateToken(rnd) == [i \in 1..TOKEN_LEN |-> chars[rnd[i] + 1]]

\* _getCurrentTmuxSession: the trimmed output, or null when it is empty or
\* the command threw
_getCurrentTmuxSession(out) ==
    IF out.failed THEN Undefined
    ELSE IF Truthy(out.text) THEN out.text ELSE Undefined

\* uuidv4(): an identifier no earlier call returned
uuidv4 == nextId

\* a property of a JSON object: absent, or present with its value
opt(x) == IF x = Undefined THEN <<>> ELSE << x >>

\* reading a property of a parsed object: undefined when it is absent
get(o) == IF o = <<>> THEN Undefined ELSE o[1]

\* JSON.stringify, with a bug: the nested metadata object is left out
JSON_stringify_shallow(session) ==
    [id |-> session.id, token |-> session.token, type |-> session.type,
     created |-> session.created, expires |-> session.expires,
     tmuxSession |-> opt(session.tmuxSession),
     project |-> opt(session.project),
     notification |->
        [type |-> opt(session.notification.type),
         project |-> opt(session.notification.project),
         message |-> opt(session.notification.message),
         metadata |-> <<>>]]

\* JSON.stringify(session, null, 2): the text of the session file. A
\* property whose value is undefined is left out, at every level; the
\* timestamps are already strings (toISOString, millisecond precision)
JSON_stringify(session) ==
    [id |-> session.id, token |-> session.token, type |-> session.type,
     created |-> session.created, expires |-> session.expires,
     tmuxSession |-> opt(session.tmuxSession),
     project |-> opt(session.project),
     notification |->
        [type |-> opt(session.notification.type),
         project |-> opt(session.notification.project),
         message |-> opt(session.notification.message),
         metadata |->
            IF session.notification.metadata.present
            THEN << [userQuestion |->
                        opt(session.notification.metadata.userQuestion),
                     claudeResponse |->
                        opt(session.notification.metadata.claudeResponse),
                     tmuxSession |->
                        opt(session.notification.metadata.tmuxSession)] >>
            ELSE <<>>]]

\* the record a reader of the session file obtains from its text: a property
\* the text does not have reads as undefined
JSON_parse(text) ==
    [id |-> text.id, token |-> text.token, type |-> text.type,
     created |-> text.created, expires |-> text.expires,
     tmuxSession |-> get(text.tmuxSession),
     project |-> get(text.project),
     notification |->
        [type |-> get(text.notification.type),
         project |-> get(text.notification.project),
         message |-> get(text.notification.message),
         metadata |->
            IF text.notification.metadata = <<>> THEN NoMetadata
            ELSE [present |-> TRUE,
                  userQuestion |->
                     get(text.notification.metadata[1].userQuestion),
                  claudeResponse |->
                     get(text.notification.metadata[1].claudeResponse),
                  tmuxSession |->
                     get(text.notification.metadata[1].tmuxSession)]]]

\* fs.writeFileSync(<sessionsDir>/<id>.json, text): creates the file, or
\* replaces its contents when it exists; store holds what the file reads as
writeFileSync(id, text) ==
    [i \in DOMAIN store \cup {id} |->
        IF i = id THEN JSON_parse(text) ELSE store[i]]

\* the notification as _createSession leaves it: metadata is filled in from
\* the recent conversation when a tmux session was found and the caller
\* supplied none
withMetadata(notification, tmuxSession, conversation) ==
    IF Truthy(tmuxSession) /\ ~notification.metadata.present
    THEN [notification EXCEPT !.metadata =
            [present |-> TRUE,
             userQuestion |->
                OrElse(conversation.userQuestion, notification.message),
             claudeResponse |->
                OrElse(conversation.claudeResponse, notification.message),
             tmuxSession |-> tmuxSession]]
    ELSE notification

\* the session object built by _createSession: created is stamped from
\* new Date(), expires from a second reading of the clock, Date.now(), taken
\* elapsed milliseconds later
newSession(sessionId, notification, token, elapsed) ==
    [id |-> sessionId,
     token |-> token,
     type |-> "slack",
     created |-> now,
     expires |-> now + elapsed + TTL_MS,
     tmuxSession |-> OrElse(notification.metadata.tmuxSession, Sentinel),
     project |-> notification.project,
     notification |-> notification]

\* _createSession, with a bug: the identifier is the number of session files
\* plus one instead of a fresh uuid
_createSession_countId(notification, token, tmuxOut, conversation, elapsed) ==
    LET sessionId == Cardinality(DOMAIN store) + 1
        tmuxSession == _getCurrentTmuxSession(tmuxOut)
        session == newSession(sessionId,
                       withMetadata(notification, tmuxSession, conversation),
                       token, elapsed)
    IN  [sessionId |-> sessionId, store |-> writeFileSync(sessionId, JSON_stringify(session))]

\* _createSession, with a bug: a record that already holds the token is
\* written anew under its old identifier
_createSession_upsert(notification, token, tmuxOut, conversation, elapsed) ==
    LET same == { i \in DOMAIN store : store[i].token = token }
        sessionId == IF same = {} THEN uuidv4 ELSE CHOOSE i \in same : TRUE
        tmuxSession == _getCurrentTmuxSession(tmuxOut)
        session == newSession(sessionId,
                       withMetadata(notification, tmuxSession, conversation),
                       token, elapsed)
    IN  [sessionId |-> sessionId, store |-> writeFileSync(sessionId, JSON_stringify(session))]

\* _createSession(notification, token): a fresh id, the tmux session of the
\* process, the metadata, the record, and its file. Yields the id and the
\* store with the file written.
_createSession(notification, token, tmuxOut, conversation, elapsed) ==
    LET sessionId == uuidv4
        tmuxSession == _getCurrentTmuxSession(tmuxOut)
        session == newSession(sessionId,
                       withMetadata(notification, tmuxSession, conversation),
                       token, elapsed)
    IN  [sessionId |-> sessionId, store |-> writeFileSync(sessionId, JSON_stringify(session))]

\* fs.existsSync(<sessionsDir>/<id>.json)
existsSync(id) == id \in DOMAIN store

\* fs.unlinkSync(<sessionsDir>/<id>.json): deletes the file; throws (ENOENT)
\* when there is none
unlinkSync(id) ==
    [threw |-> id \notin DOMAIN store,
     store |-> [i \in DOMAIN store \ {id} |-> store[i]]]

\* _removeSession, with a bug: the file is unlinked without asking whether
\* it exists
_removeSession_unguarded(sessionId) == unlinkSync(sessionId)

\* _removeSession(sessionId): unlinks the session file when it exists.
\* Yields whether it threw, and the store it leaves.
_removeSession(sessionId) ==
    IF existsSync(sessionId) THEN unlinkSync(sessionId)
    ELSE [threw |-> FALSE, store |-> store]

----------------------------------------------------------------------------
(* _sendImpl: disp holds the invocations, by number: the token and session *)
(* id each one holds, and "pending" while it awaits chat.postMessage, then  *)
(* how it ended: "true" or "false" returned, or "threw"                     *)

\* the invocations that await chat.postMessage
Dispatches == { d \in DOMAIN disp : disp[d].ret = "pending" }

\* disp once the invocation d has ended with ret
returnFrom(d, ret) == [disp EXCEPT ![d].ret = ret]

\* _sendImpl up to its await: validateConfig (an invalid configuration makes
\* it throw before anything is done), _generateToken, _createSession, and
\* the call of chat.postMessage
SendImpl(notification, rnd, tmuxOut, conversation, elapsed) ==
    /\ nextId <= MaxDispatch
    /\ validateConfig
    /\ LET token == _generateToken(rnd)
           made == _createSession(notification, token, tmuxOut, conversation,
                                  elapsed)
       IN  /\ store' = made.store
           /\ nextId' = nextId + 1
           /\ everIds' = everIds \cup { made.sessionId }
           /\ disp' = [k \in DOMAIN disp \cup {nextId} |->
                         IF k = nextId
                         THEN [token |-> token, sessionId |-> made.sessionId,
                               ret |-> "pending"]
                         ELSE disp[k]]
    /\ now' = now + elapsed
    /\ UNCHANGED <<config, tmuxLive, cmd, relay>>

\* chat.postMessage resolved: _sendImpl returns true
PostResolved(d) ==
    /\ d \in Dispatches
    /\ disp' = returnFrom(d, "true")
    /\ UNCHANGED <<config, store, nextId, everIds, now, tmuxLive, cmd, relay>>

\* the catch block, with a bug: every session that holds the token of this
\* invocation is removed
PostRejected_byToken(d) ==
    /\ d \in Dispatches
    /\ store' = [i \in { j \in DOMAIN store : store[j].token # disp[d].token }
                    |-> store[i]]
    /\ disp' = returnFrom(d, "false")
    /\ UNCHANGED <<config, nextId, everIds, now, tmuxLive, cmd, relay>>

\* chat.postMessage rejected: the catch block removes the session of this
\* invocation and _sendImpl returns false (an exception of _removeSession
\* would leave the catch block instead)
PostRejected(d) ==
    /\ d \in Dispatches
    /\ LET removed == _removeSession(disp[d].sessionId)
       IN  /\ store' = removed.store
           /\ disp' = returnFrom(d, IF removed.threw THEN "threw" ELSE "false")
    /\ UNCHANGED <<config, nextId, everIds, now, tmuxLive, cmd, relay>>

----------------------------------------------------------------------------
(* Session Store lookup, Terminal Session Locator and Command Relay        *)
(* (src/relay/command-relay, required by the channel)                      *)

\* a record is live while now <= expires
Live(session) == now <= session.expires

\* ids of the persisted records that hold the token
holders(token) == { i \in DOMAIN store : store[i].token = token }

\* the most recently created record among ids (the later file on equal
\* timestamps)
newest(ids) ==
    CHOOSE i \in ids : \A j \in ids :
        \/ store[j].created < store[i].created
        \/ store[j].created = store[i].created /\ j <= i

\* remove(id): the store without the record; nothing happens when it is
\* already absent
remove(id) == [i \in DOMAIN store \ {id} |-> store[i]]

\* findByToken, with a bug: expiry is not looked at
findByToken_noExpiry(token) ==
    IF holders(token) = {} THEN <<>> ELSE << store[newest(holders(token))] >>

\* findByToken, with a bug: the token is not compared
findByToken_anyToken(token) ==
    IF LET live == { i \in DOMAIN store : Live(store[i]) } IN live = {}
    THEN <<>>
    ELSE << store[newest({ i \in DOMAIN store : Live(store[i]) })] >>

\* findByToken(token): scans the live records for the token; of several the
\* most recently created; <<>> is NotFound
findByToken(token) ==
    LET live == { i \in holders(token) : Live(store[i]) }
    IN  IF live = {} THEN <<>> ELSE << store[newest(live)] >>

\* contextExists(name)
contextExists(name) == name \in tmuxLive

\* sendKeys(name, text): the literal text, then the execute trigger
sendKeys(name, text) ==
    << [context |-> name, kind |-> "literal", keys |-> text],
       [context |-> name, kind |-> "enter", keys |-> <<>>] >>

NotFoundMessage == "token not found or expired"

\* what a relayCommand call yields: it threw, or its structured result; the
\* keystrokes it delivered, the store lookups it made, the store it leaves
Outcome(threw, success, message, session, delivered, lookups, st) ==
    [threw |-> threw, success |-> success, message |-> message,
     session |-> session, delivered |-> delivered, lookups |-> lookups,
     store |-> st]

\* step 1 failed: the command text is empty
rejectEmpty(lookups) ==
    Outcome(FALSE, FALSE, "empty command", <<>>, <<>>, lookups, store)

\* the store or the locator is unreachable: the call throws
unreachable == Outcome(TRUE, FALSE, "", <<>>, <<>>, 1, store)

\* steps 2 and 3 failed: no live record holds the token; an expired record
\* that holds it (the most recent) is deleted
miss(token, message) ==
    Outcome(FALSE, FALSE, message, <<>>, <<>>, 1,
            IF holders(token) = {} THEN store
            ELSE remove(newest(holders(token))))

\* steps 4 to 7, with a bug: a target that no longer exists makes the call
\* throw
deliver_raises(session, commandText) ==
    IF ~Truthy(session.tmuxSession) \/ session.tmuxSession = Sentinel
    THEN Outcome(FALSE, FALSE, "no target session", <<>>, <<>>, 1, store)
    ELSE IF ~contextExists(session.tmuxSession)
    THEN Outcome(TRUE, FALSE, "", <<>>, <<>>, 1, store)
    ELSE Outcome(FALSE, TRUE, "", << session >>,
                 sendKeys(session.tmuxSession, commandText), 1, store)

\* steps 4 to 7, with a bug: the target is not confirmed live before the
\* command text is sent
deliver_unchecked(session, commandText) ==
    IF ~Truthy(session.tmuxSession) \/ session.tmuxSession = Sentinel
    THEN Outcome(FALSE, FALSE, "no target session", <<>>, <<>>, 1, store)
    ELSE Outcome(FALSE, TRUE, "", << session >>,
                 sendKeys(session.tmuxSession, commandText), 1, store)

\* steps 4 to 7, with a bug: a session whose target no longer exists is
\* deleted on discovery
deliver_cleansUp(session, commandText) ==
    IF ~Truthy(session.tmuxSession) \/ session.tmuxSession = Sentinel
    THEN Outcome(FALSE, FALSE, "no target session", <<>>, <<>>, 1, store)
    ELSE IF ~contextExists(session.tmuxSession)
    THEN Outcome(FALSE, FALSE, "target session no longer active", <<>>, <<>>, 1,
                 remove(session.id))
    ELSE Outcome(FALSE, TRUE, "", << session >>,
                 sendKeys(session.tmuxSession, commandText), 1, store)

\* steps 4 to 7: the target of the session is resolved, confirmed live, and
\* sent the command text
deliver(session, commandText) ==
    IF ~Truthy(session.tmuxSession) \/ session.tmuxSession = Sentinel
    THEN Outcome(FALSE, FALSE, "no target session", <<>>, <<>>, 1, store)
    ELSE IF ~contextExists(session.tmuxSession)
    THEN Outcome(FALSE, FALSE, "target session no longer active", <<>>, <<>>, 1, store)
    ELSE Outcome(FALSE, TRUE, "", << session >>,
                 sendKeys(session.tmuxSession, commandText), 1, store)

\* relayCommand(token, commandText); reachable: the store and the locator
\* can be reached during this call
\*  1. an empty command is rejected before anything else;
\*  2. the session is looked up by token; a miss is "not found";
\*  3. an expired record is a miss too, and is deleted;
\*  4. a sentinel target is "no target session";
\*  5. a target that no longer exists is "no longer active";
\*  6. the command text is delivered with sendKeys;
\*  7. success carries the session.
relayCommand(token, commandText, reachable) ==
    IF commandText = <<>> THEN rejectEmpty(0)
    ELSE IF ~reachable THEN unreachable
    ELSE IF findByToken(token) = <<>> THEN miss(token, NotFoundMessage)
    ELSE deliver(findByToken(token)[1], commandText)

\* handleCommand, with a bug: the arguments of relayCommand are swapped
handleCommand_swapped(command, context, reachable) ==
    relayCommand(command, context.token, reachable)

\* SlackChannel.handleCommand(command, context): the result of
\* relayCommand(context.token, command), as it is
handleCommand(command, context, reachable) ==
    relayCommand(context.token, command, reachable)

----------------------------------------------------------------------------
(* Callers of handleCommand *)

\* the tokens _generateToken can return under RandomDraws
GeneratedTokens == { _generateToken(rnd) : rnd \in RandomDraws }

Repeat(c, n) == [i \in 1..n |-> c]

\* a well-formed token that is never generated
StrangerToken == Repeat("Z", TOKEN_LEN)

ls == << "l", "s" >>

\* tokens and command texts other callers of the channel pass to handleCommand
CallTokens == GeneratedTokens
CallCommands == { <<>>, ls }

\* the call record the caller holds: its arguments and what came back
Call(caller, token, command, out) ==
    [caller |-> caller, token |-> token, command |-> command,
     threw |-> out.threw, success |-> out.success, message |-> out.message,
     session |-> out.session, delivered |-> out.delivered,
     lookups |-> out.lookups]

\* a caller of the channel API calls handleCommand(command, {token})
HandleCommandCall(token, command, reachable) ==
    /\ relay = <<>>
    /\ cmd.pc = "idle"
    /\ LET out == handleCommand(command, [token |-> token], reachable)
       IN  /\ relay' = << Call("direct", token, command, out) >>
           /\ store' = out.store
    /\ UNCHANGED <<config, nextId, everIds, now, tmuxLive, disp, cmd>>

\* that caller has consumed the result
HandleCommandReturn ==
    /\ relay # <<>>
    /\ relay[1].caller = "direct"
    /\ relay' = <<>>
    /\ UNCHANGED <<config, store, nextId, everIds, now, tmuxLive, disp, cmd>>

----------------------------------------------------------------------------
(* app.command('/claude', ...) *)

\* String.prototype.trim: leading and trailing whitespace removed
RECURSIVE trimStart(_)
trimStart(t) ==
    IF t # <<>> /\ t[1] \in Whitespace THEN trimStart(Tail(t)) ELSE t

RECURSIVE trimEnd(_)
trimEnd(t) ==
    IF t # <<>> /\ t[Len(t)] \in Whitespace
    THEN trimEnd(SubSeq(t, 1, Len(t) - 1)) ELSE t

trim(t) == trimEnd(trimStart(t))

\* the characters of [A-Z0-9]
TokenChars == { chars[i] : i \in 1..Len(chars) }

\* the match, with a bug: the pattern lacks the \s after the token
tokenMatch_noSeparator(text) ==
    /\ Len(text) >= TOKEN_LEN
    /\ \A i \in 1..TOKEN_LEN : text[i] \in TokenChars

\* text.match(/^([A-Z0-9]{8})\s/)
tokenMatch(text) ==
    /\ Len(text) >= TOKEN_LEN + 1
    /\ \A i \in 1..TOKEN_LEN : text[i] \in TokenChars
    /\ text[TOKEN_LEN + 1] \in Whitespace

\* text.substring(n): the text from index n (0-based) on
substring(text, n) == SubSeq(text, n + 1, Len(text))

\* the handler's reading of command.text: whether the relay is to be called,
\* with which token and command text, and otherwise which reply is sent
parseCommand(raw) ==
    LET text == trim(raw)
        token == SubSeq(text, 1, TOKEN_LEN)
        commandText == substring(text, Len(token) + 1)
    IN  IF ~tokenMatch(text)
        THEN [relay |-> FALSE, reply |-> "invalid-format",
              token |-> <<>>, commandText |-> <<>>]
        ELSE IF commandText = <<>>
        THEN [relay |-> FALSE, reply |-> "missing-command",
              token |-> token, commandText |-> <<>>]
        ELSE [relay |-> TRUE, reply |-> "",
              token |-> token, commandText |-> commandText]

Tok1 == _generateToken(<<0, 0, 0, 0, 0, 0, 0, 0>>)

\* values of command.text: a well-formed command; one with a space before
\* the token, a tab and a space after it and a space at the end; a token
\* followed by a space only, a token in lower case, too short, too long, and
\* no text at all
SlashTexts ==
    { Tok1 \o <<" ">> \o ls,
      <<" ">> \o Tok1 \o <<"\t", " ">> \o ls \o <<" ">>,
      Tok1 \o <<" ">>,
      Repeat("a", TOKEN_LEN) \o <<" ">> \o ls,
      Repeat("A", TOKEN_LEN - 1) \o <<" ">> \o ls,
      Repeat("A", TOKEN_LEN + 1) \o <<" ">> \o ls,
      <<>> }

IdleCmd == [pc |-> "idle", text |-> <<>>, log |-> <<>>]

Reply(kind, session, detail) ==
    [event |-> "say", kind |-> kind, session |-> session, detail |-> detail]

Ack == [event |-> "ack", kind |-> "", session |-> "", detail |-> ""]

\* the handler runs on command.text = text up to its second await: ack(),
\* then the text is parsed; a malformed command is answered with say(...),
\* a well-formed one goes to handleCommand
SlashCommand(text, reachable) ==
    /\ cmd.pc = "idle"
    /\ relay = <<>>
    /\ LET p == parseCommand(text)
       IN  IF ~p.relay
           THEN /\ cmd' = [pc |-> "said", text |-> text,
                           log |-> << Ack, Reply(p.reply, "", "") >>]
                /\ UNCHANGED <<store, relay>>
           ELSE LET out == handleCommand(p.commandText, [token |-> p.token],
                                         reachable)
                IN  /\ relay' = << Call("slash", p.token, p.commandText, out) >>
                    /\ store' = out.store
                    /\ cmd' = [pc |-> "awaiting", text |-> text, log |-> << Ack >>]
    /\ UNCHANGED <<config, nextId, everIds, now, tmuxLive, disp>>

\* the handler after handleCommand, with a bug: there is no catch block, an
\* exception of handleCommand leaves the handler unanswered
SlashReply_uncaught ==
    /\ cmd.pc = "awaiting"
    /\ LET r == relay[1]
       IN  cmd' = IF r.threw THEN [cmd EXCEPT !.pc = "threw"]
                  ELSE [cmd EXCEPT !.pc = "said",
                          !.log = Append(@,
                             IF r.success
                             THEN Reply("sent", r.session[1].tmuxSession, "")
                             ELSE Reply("failed", "", r.message))]
    /\ relay' = <<>>
    /\ UNCHANGED <<config, store, nextId, everIds, now, tmuxLive, disp>>

\* handleCommand has settled: the success, failure or error reply is sent
SlashReply ==
    /\ cmd.pc = "awaiting"
    /\ LET r == relay[1]
           reply == IF r.threw THEN Reply("unexpected-error", "", "")
                    ELSE IF r.success
                    THEN Reply("sent", r.session[1].tmuxSession, "")
                    ELSE Reply("failed", "", r.message)
       IN  cmd' = [cmd EXCEPT !.pc = "said", !.log = Append(@, reply)]
    /\ relay' = <<>>
    /\ UNCHANGED <<config, store, nextId, everIds, now, tmuxLive, disp>>

\* say(...) has resolved: the handler returns
SlashDone ==
    /\ cmd.pc = "said"
    /\ cmd' = IdleCmd
    /\ UNCHANGED <<config, store, nextId, everIds, now, tmuxLive, disp, relay>>

----------------------------------------------------------------------------
(* Environment *)

\* time passes: the lifetime of a session, so that a record is at its expiry
\* instant one advance after its creation and past it after two. The clock
\* is read only to stamp records and to compare with their expiry, so time
\* counts from the first creation.
Tick ==
    /\ everIds # {}
    /\ now + TTL_MS <= MaxTicks * TTL_MS
    /\ now' = now + TTL_MS
    /\ UNCHANGED <<config, store, nextId, everIds, tmuxLive, disp, cmd, relay>>

\* a tmux session ends
KillTmux(name) ==
    /\ name \in tmuxLive
    /\ tmuxLive' = tmuxLive \ { name }
    /\ UNCHANGED <<config, store, nextId, everIds, now, disp, cmd, relay>>

\* a tmux session is started
StartTmux(name) ==
    /\ name \notin tmuxLive
    /\ tmuxLive' = tmuxLive \cup { name }
    /\ UNCHANGED <<config, store, nextId, everIds, now, disp, cmd, relay>>

----------------------------------------------------------------------------
(* Specification *)

\* the startup script exits unless botToken is set; channelId may be missing
Init ==
    /\ config \in { [botToken |-> TRUE, channelId |-> c] : c \in BOOLEAN }
    /\ store = <<>>
    /\ nextId = 1
    /\ everIds = {}
    /\ now = 0
    /\ tmuxLive = TmuxNames
    /\ disp = <<>>
    /\ cmd = IdleCmd
    /\ relay = <<>>

\* The channel: notifications are dispatched, callers of the channel API
\* relay commands through handleCommand, time passes, tmux sessions come and
\* go. (The /claude handler acts on the channel through handleCommand alone;
\* it is exercised by NextSlash.)
Next ==
    \/ \E n \in Notifications, rnd \in RandomDraws,
          out \in TmuxOutputs, c \in Conversations :
          SendImpl(n, rnd, out, c, 0)
    \/ \E d \in Dispatches : PostResolved(d)
    \/ \E d \in Dispatches : PostRejected(d)
    \/ \E t \in CallTokens, c \in CallCommands : HandleCommandCall(t, c, TRUE)
    \/ HandleCommandReturn
    \/ Tick
    \/ \E name \in TmuxNames : KillTmux(name)
    \/ \E name \in TmuxNames : StartTmux(name)

Spec == Init /\ [][Next]_vars

\* The /claude handler over the channel: every text of SlashTexts, with the
\* store and the locator reachable or not, against sessions created from
\* notifications without metadata.
NextSlash ==
    \/ \E n \in { m \in Notifications : ~m.metadata.present },
          rnd \in RandomDraws, out \in TmuxOutputs, c \in Conversations :
          SendImpl(n, rnd, out, c, 0)
    \/ \E d \in Dispatches : PostResolved(d)
    \/ \E d \in Dispatches : PostRejected(d)
    \/ \E text \in SlashTexts, up \in BOOLEAN : SlashCommand(text, up)
    \/ SlashReply
    \/ SlashDone
    \/ Tick
    \/ \E name \in TmuxNames : KillTmux(name)
    \/ \E name \in TmuxNames : StartTmux(name)

SpecSlash == Init /\ [][NextSlash]_vars

\* Session creation under the clock: dispatches whose two readings of the
\* clock fall in the same millisecond or in consecutive ones, and the
\* passing of time.
NextClock ==
    \/ \E n \in Notifications, rnd \in RandomDraws, out \in TmuxOutputs,
          c \in Conversations, e \in Elapsed : SendImpl(n, rnd, out, c, e)
    \/ \E d \in Dispatches : PostResolved(d)
    \/ \E d \in Dispatches : PostRejected(d)
    \/ Tick

SpecClock == Init /\ [][NextClock]_vars

----------------------------------------------------------------------------
(* Properties *)

\* a handleCommand call is made in this step; afterwards relay[1] holds its
\* arguments and its result
CallStep == relay = <<>> /\ relay' # <<>>

\* the ids of the persisted records that are live
LiveIds == { i \in DOMAIN store : Live(store[i]) }

\* C1: at most one live persisted session record holds any given token.
C1_OneLiveSessionPerToken ==
    \A i \in LiveIds : \A j \in LiveIds :
        i # j => store[i].token # store[j].token

\* the fields of a call record r that its caller sees are those of outcome out
SameResult(r, out) ==
    /\ r.threw = out.threw
    /\ r.success = out.success
    /\ r.message = out.message
    /\ r.session = out.session
    /\ r.delivered = out.delivered

\* a live record holds the token and its target context exists
HasLiveTarget(token) ==
    \E i \in LiveIds :
        /\ store[i].token = token
        /\ store[i].tmuxSession # Sentinel
        /\ contextExists(store[i].tmuxSession)

\* C2: a call with the token of a live session whose target context exists
\* (and a command to send) succeeds, and delivers exactly the command text,
\* then the execute trigger, to the target of such a session; the call
\* record shows the token and command handleCommand was given.
C2_LiveTokenRelaysVerbatim ==
    [][ CallStep =>
          LET r == relay'[1]
          IN  (r.command # <<>> /\ ~r.threw /\ HasLiveTarget(r.token)) =>
                /\ r.success
                /\ \E i \in LiveIds :
                      /\ store[i].token = r.token
                      /\ r.session = << store[i] >>
                      /\ contextExists(store[i].tmuxSession)
                      /\ r.delivered = sendKeys(store[i].tmuxSession, r.command)
      ]_vars

\* C3 as stated: a call with a token no persisted record holds returns
\* success=false with the not-found message, whatever the command text, and
\* delivers nothing.
C3_UnknownTokenAnyCommand ==
    [][ CallStep =>
          LET r == relay'[1]
          IN  holders(r.token) = {} =>
                /\ ~r.threw /\ ~r.success
                /\ r.message = NotFoundMessage
                /\ r.delivered = <<>>
      ]_vars

\* C3, amended: a call with a token no persisted record holds and a
\* non-empty command text returns success=false with the not-found message,
\* delivers nothing and leaves the store as it was.
C3_UnknownTokenNotFound ==
    [][ CallStep =>
          LET r == relay'[1]
          IN  (holders(r.token) = {} /\ r.command # <<>>) =>
                /\ ~r.threw /\ ~r.success
                /\ r.message = NotFoundMessage
                /\ r.session = <<>>
                /\ r.delivered = <<>>
                /\ store' = store
      ]_vars

\* a call returned not-found for a token no record holds, while the store
\* holds a live session of another token
C3_Witness ==
    /\ relay # <<>>
    /\ relay[1].command # <<>>
    /\ relay[1].message = NotFoundMessage
    /\ holders(relay[1].token) = {}
    /\ LiveIds # {}

\* no two of the records ids were ever live at the same time
NeverLiveTogether(ids) ==
    \A i \in ids : \A j \in ids :
        i # j => (store[i].expires < store[j].created
                  \/ store[j].expires < store[i].created)

\* C4 as stated: a call with the token of a persisted session whose expires
\* is in the past returns what a call with a never-stored token returns
\* (checked where the holders of the token were never live together, so
\* that no token collision is involved).
C4_ExpiredSessionLikeMissing ==
    [][ CallStep =>
          LET r == relay'[1]
          IN  (/\ \E i \in holders(r.token) : ~Live(store[i])
               /\ NeverLiveTogether(holders(r.token))) =>
                /\ ~r.success
                /\ SameResult(r, relayCommand(StrangerToken, r.command, TRUE))
      ]_vars

\* C4, amended: a call with a token that only expired persisted sessions
\* hold returns exactly what a call with a never-stored token returns:
\* success=false, the same message (the not-found message when there is a
\* command), no session, nothing delivered.
C4_OnlyExpiredLikeMissing ==
    [][ CallStep =>
          LET r == relay'[1]
          IN  (holders(r.token) # {} /\ \A i \in holders(r.token) : ~Live(store[i])) =>
                /\ ~r.success
                /\ r.command # <<>> => r.message = NotFoundMessage
                /\ SameResult(r, relayCommand(StrangerToken, r.command, TRUE))
      ]_vars

\* a call returned not-found for a token that an expired record still holds
C4_Witness ==
    /\ relay # <<>>
    /\ relay[1].command # <<>>
    /\ relay[1].message = NotFoundMessage
    /\ \E i \in holders(relay[1].token) : ~Live(store[i])

\* the session id was created and is expired or removed
Dead(id) == id \in everIds /\ (id \notin DOMAIN store \/ ~Live(store[id]))

\* C5: a session that is expired or removed stays so under every step, and
\* no call made from then on succeeds with that session.
C5_NoResurrection ==
    [][ \A id \in everIds :
          Dead(id) =>
            /\ Dead(id)'
            /\ ~(CallStep /\ relay'[1].success /\ relay'[1].session[1].id = id)
      ]_vars

\* a call succeeded with a token that an expired record also holds
C5_Witness ==
    /\ relay # <<>>
    /\ relay[1].success
    /\ \E i \in holders(relay[1].token) : ~Live(store[i])

\* a call with the token is answered as a lookup miss
Misses(token) ==
    LET out == relayCommand(token, ls, TRUE)
    IN  /\ ~out.threw /\ ~out.success
        /\ out.message = NotFoundMessage
        /\ out.session = <<>>
        /\ out.delivered = <<>>

\* C6: right after a session record is deleted, a call with its token is
\* answered as a lookup miss.
C6_DeletedTokenMisses ==
    [][ \A t \in GeneratedTokens :
          (\E id \in DOMAIN store : id \notin DOMAIN store' /\ store[id].token = t)
            => Misses(t)'
      ]_vars

\* C7: a call with an empty command text returns success=false with
\* "empty command", makes no store lookup, delivers nothing and leaves the
\* store as it was.
C7_EmptyCommandRejected ==
    [][ CallStep =>
          LET r == relay'[1]
          IN  r.command = <<>> =>
                /\ ~r.threw /\ ~r.success
                /\ r.message = "empty command"
                /\ r.lookups = 0
                /\ r.delivered = <<>>
                /\ store' = store
      ]_vars

\* an empty command was rejected although a live session holds the token
C7_Witness ==
    /\ relay # <<>>
    /\ relay[1].command = <<>>
    /\ relay[1].message = "empty command"
    /\ \E i \in LiveIds : store[i].token = relay[1].token

\* the handler has called handleCommand for cmd.text
Relayed ==
    \/ cmd.pc = "awaiting"
    \/ /\ cmd.pc = "said"
       /\ cmd.log[Len(cmd.log)].kind \in { "sent", "failed", "unexpected-error" }

\* the handler has answered cmd.text with an invalid-format reply and nothing else
InvalidReply ==
    /\ Len(cmd.log) = 2
    /\ cmd.log[1] = Ack
    /\ cmd.log[2].event = "say"
    /\ cmd.log[2].kind \in { "invalid-format", "missing-command" }

\* t consists of an 8-character token over [A-Z0-9], whitespace, and a
\* non-empty command text
WellFormed(t) ==
    /\ Len(t) >= TOKEN_LEN + 2
    /\ \A i \in 1..TOKEN_LEN : t[i] \in TokenChars
    /\ t[TOKEN_LEN + 1] \in Whitespace

\* C8 as stated: the handler calls handleCommand only for a command text
\* that consists of a token, whitespace and a non-empty command; every other
\* text gets the invalid-format reply and no relay.
C8_RelayOnlyWellFormedText ==
    cmd.pc # "idle" =>
        /\ Relayed => WellFormed(cmd.text)
        /\ (~WellFormed(cmd.text) /\ cmd.pc = "said") => InvalidReply

\* C8, amended: the handler calls handleCommand only for a command text
\* that, once leading and trailing whitespace is trimmed, consists of a
\* token, whitespace and a non-empty command, and then with that token and
\* the non-empty text after the token's separator; every other text gets
\* the invalid-format reply and no relay.
C8_RelayOnlyWellFormedTrimmed ==
    cmd.pc # "idle" =>
        LET t == trim(cmd.text)
        IN  /\ Relayed => WellFormed(t)
            /\ cmd.pc = "awaiting" =>
                 /\ relay[1].token = SubSeq(t, 1, TOKEN_LEN)
                 /\ relay[1].command = SubSeq(t, TOKEN_LEN + 2, Len(t))
                 /\ relay[1].command # <<>>
            /\ ~WellFormed(t) => ~Relayed
            /\ (~WellFormed(t) /\ cmd.pc = "said") => InvalidReply

\* a padded command text reached the relay
C8_Witness == Relayed /\ cmd.text # trim(cmd.text)

\* C9: a persisted record never changes: a record that is persisted before
\* and after a step has the same fields.
C9_WriteOnce ==
    [][ \A id \in DOMAIN store :
          id \in DOMAIN store' => store'[id] = store[id]
      ]_vars

\* a record older than the clock is persisted after another session was
\* removed and while a relay call is being answered
C9_Witness ==
    /\ \E id \in DOMAIN store : store[id].created < now
    /\ everIds # DOMAIN store
    /\ relay # <<>>

\* C10: a creation writes under an identifier no session had before, and
\* leaves every persisted record as it was.
C10_CreationNeverOverwrites ==
    [][ nextId' # nextId =>
          LET new == disp'[nextId].sessionId
          IN  /\ new \notin everIds
              /\ DOMAIN store' = DOMAIN store \cup { new }
              /\ \A id \in DOMAIN store : store'[id] = store[id]
      ]_vars

\* a session was created while an expired record was persisted
C10_Witness ==
    \E i \in DOMAIN store : \E j \in DOMAIN store :
        store[i].expires < store[j].created

\* C11: findByToken never returns an expired record: what it returns for a
\* token is a persisted record that holds the token and is live, also while
\* an expired record that holds the token is still persisted.
C11_FindByTokenSkipsExpired ==
    \A t \in GeneratedTokens :
        findByToken(t) # <<>> =>
            /\ Live(findByToken(t)[1])
            /\ \E i \in holders(t) : store[i] = findByToken(t)[1]

\* an expired record that holds a token is persisted, and findByToken
\* returns another record for that token
C11_Witness ==
    \E t \in GeneratedTokens :
        /\ \E i \in holders(t) : ~Live(store[i])
        /\ findByToken(t) # <<>>

\* the step starts a dispatch that drew rnd and whose clock readings lie e
\* milliseconds apart
Creates(rnd, e) ==
    /\ nextId' # nextId
    /\ now' = now + e
    /\ disp'[nextId].token = _generateToken(rnd)

\* C12: right after _sendImpl has created a session, findByToken with the
\* generated token returns a record whose fields are those of the session
\* object _createSession built (its id, token, type, created, expires,
\* tmuxSession, project and notification).
C12_CreateThenFindRoundTrip ==
    [][ \A n \in Notifications, rnd \in RandomDraws, out \in TmuxOutputs,
           c \in Conversations, e \in Elapsed :
          (Creates(rnd, e) /\ SendImpl(n, rnd, out, c, e)) =>
            findByToken(_generateToken(rnd))' =
              << newSession(uuidv4,
                            withMetadata(n, _getCurrentTmuxSession(out), c),
                            _generateToken(rnd), e) >>
      ]_vars

\* the session of a pending dispatch, whose metadata _createSession filled
\* in, is what findByToken returns for its token, while an older record
\* holds the same token
C12_Witness ==
    \E d \in Dispatches :
        /\ disp[d].sessionId \in DOMAIN store
        /\ findByToken(disp[d].token) = << store[disp[d].sessionId] >>
        /\ store[disp[d].sessionId].notification.metadata.tmuxSession \in TmuxNames
        /\ \E i \in holders(disp[d].token) : i # disp[d].sessionId

\* the session ids handed out so far, and the next one, which no file has
SessionIds == 1..nextId

\* C13: before and after every step on the session files or the dispatches,
\* _removeSession does not throw, and for an id that has no file it leaves
\* the store as it is; after a step that has the effect of removing an id,
\* removing that id once more leaves the store as the first removal left it.
C13_RemoveIdempotent ==
    [][ (store' # store \/ disp' # disp) =>
          \A id \in SessionIds :
             /\ ~_removeSession(id).threw
             /\ id \notin DOMAIN store => _removeSession(id).store = store
             /\ ~(_removeSession(id).threw)'
             /\ id \notin DOMAIN store' => (_removeSession(id).store)' = store'
             /\ store' = _removeSession(id).store =>
                   (_removeSession(id).store)' = store'
      ]_vars

\* a dispatch awaits chat.postMessage while its session file is already
\* gone (the record expired and a relay call deleted it), so that its
\* rollback removes an absent id; another dispatch has been rolled back
C13_Witness ==
    \E d \in Dispatches :
        /\ disp[d].sessionId \notin DOMAIN store
        /\ \E e \in DOMAIN disp : disp[e].ret = "false"

\* the live records that hold the token
LiveHolders(token) == { i \in holders(token) : Live(store[i]) }

\* every live record that holds the token (there is one) names a target
\* context that is not the sentinel and does not exist
TargetDead(token) ==
    /\ LiveHolders(token) # {}
    /\ \A i \in LiveHolders(token) :
          /\ store[i].tmuxSession # Sentinel
          /\ ~contextExists(store[i].tmuxSession)

\* C14: relayCommand does not throw for an expected condition but returns a
\* result with success=false and the message of the condition: the empty
\* command (also when the store cannot be reached), a token no record
\* holds, a token only expired records hold, a token whose target context
\* is dead. With the store and the locator reachable no call throws.
C14_ExpectedConditionsReturned ==
    [][ /\ \A t \in CallTokens :
             LET out == relayCommand(t, <<>>, FALSE)
             IN  ~out.threw /\ ~out.success /\ out.message = "empty command"
        /\ CallStep =>
             LET r == relay'[1]
             IN  /\ ~r.threw
                 /\ r.command = <<>> =>
                      ~r.success /\ r.message = "empty command"
                 /\ (r.command # <<>> /\ LiveHolders(r.token) = {}) =>
                      ~r.success /\ r.message = NotFoundMessage
                 /\ (r.command # <<>> /\ TargetDead(r.token)) =>
                      ~r.success /\ r.message = "target session no longer active"
      ]_vars

\* a call for a live session whose target context is gone has returned a
\* failure result
C14_Witness ==
    /\ relay # <<>>
    /\ ~relay[1].threw /\ ~relay[1].success
    /\ relay[1].message = "target session no longer active"
    /\ TargetDead(relay[1].token)

\* the step removes the record id, if it is persisted, and no other record,
\* and changes none
RemovesOnly(id) ==
    /\ DOMAIN store' = DOMAIN store \ { id }
    /\ \A i \in DOMAIN store' : store'[i] = store[i]

\* C15 as stated: when chat.postMessage fails, _sendImpl removes the record
\* it created and no other, returns false, and afterwards no persisted
\* session holds its token (checked where the holders of the token were
\* never live together, so that no token collision is involved).
C15_RollbackClearsToken ==
    [][ \A d \in Dispatches :
          (PostRejected(d) /\ NeverLiveTogether(holders(disp[d].token))) =>
            /\ disp'[d].ret = "false"
            /\ RemovesOnly(disp[d].sessionId)
            /\ \A i \in DOMAIN store' : store'[i].token # disp[d].token
      ]_vars

\* C15, amended: when chat.postMessage fails, _sendImpl removes the record
\* it created and no other, changes no record, and returns false, whatever
\* the other dispatches are doing; afterwards the sessions that hold its
\* token are those other dispatches created.
C15_RollbackRemovesOwnRecord ==
    [][ \A d \in Dispatches :
          PostRejected(d) =>
            /\ disp'[d].ret = "false"
            /\ RemovesOnly(disp[d].sessionId)
            /\ disp[d].sessionId \notin DOMAIN store'
            /\ \A e \in DOMAIN disp' : e # d => disp'[e] = disp[e]
            /\ \A i \in DOMAIN store' :
                 store'[i].token = disp[d].token =>
                    /\ i # disp[d].sessionId
                    /\ i \in DOMAIN store
      ]_vars

\* a dispatch was rolled back while another dispatch, which drew the same
\* token, awaits chat.postMessage with its record persisted
C15_Witness ==
    \E d \in DOMAIN disp : \E e \in Dispatches :
        /\ disp[d].ret = "false"
        /\ disp[d].sessionId \notin DOMAIN store
        /\ disp[e].token = disp[d].token
        /\ disp[e].sessionId \in DOMAIN store

\* C16: the record a dispatch persists names as its target the tmux session
\* _getCurrentTmuxSession returned, when it returned one, and the sentinel
\* when it returned none, whatever notification was supplied.
C16_TargetIsCurrentContext ==
    [][ \A n \in Notifications, rnd \in RandomDraws,
           out \in TmuxOutputs, c \in Conversations :
          (Creates(rnd, 0) /\ SendImpl(n, rnd, out, c, 0)) =>
            store'[uuidv4].tmuxSession =
              IF _getCurrentTmuxSession(out) # Undefined
              THEN _getCurrentTmuxSession(out)
              ELSE Sentinel
      ]_vars

\* every live record that holds the token (there is one) has the sentinel
\* as its target
TargetSentinel(token) ==
    /\ LiveHolders(token) # {}
    /\ \A i \in LiveHolders(token) : store[i].tmuxSession = Sentinel

C18_ExpiresIsCreatedPlusTTL ==
    \A i \in DOMAIN store : store[i].expires = store[i].created + TTL_MS

C20_AckThenOneReply ==
    [][ /\ cmd'.pc \in { "idle", "awaiting", "said" }
        /\ cmd'.pc = "awaiting" => cmd'.log = << Ack >> /\ relay' # <<>>
        /\ cmd'.pc = "said" =>
             /\ Len(cmd'.log) = 2
             /\ cmd'.log[1] = Ack
             /\ cmd'.log[2].event = "say"
             /\ relay' = <<>>
        /\ (cmd.pc = "idle" /\ cmd'.pc = "said") =>
             /\ cmd'.log[2].kind \in { "invalid-format", "missing-command" }
             /\ relay' = relay /\ store' = store
        /\ (cmd.pc = "awaiting" /\ cmd' # cmd) =>
             LET r == relay[1]
             IN  /\ cmd'.pc = "said"
                 /\ r.threw => cmd'.log[2] = Reply("unexpected-error", "", "")
                 /\ (~r.threw /\ r.success) =>
                      cmd'.log[2] = Reply("sent", r.session[1].tmuxSession, "")
                 /\ (~r.threw /\ ~r.success) =>
                      cmd'.log[2] = Reply("failed", "", r.message)
      ]_vars

\* handleCommand threw and the handler has answered with the generic error
\* reply
C20_Witness ==
    /\ cmd.pc = "said"
    /\ cmd.log = << Ack, Reply("unexpected-error", "", "") >>

====
